---- MODULE Spec2Model ----
(***************************************************************************)
(* Model of the two Kinde workflows of this repository:                    *)
(*   - billing/trackOrgSeatUsageWorkflow.ts  (trackOrgSeatUsage)           *)
(*   - the username validation Workflow (onUsernameProvided)               *)
(* trackOrgSeatUsage is an async function: it is modelled as one action    *)
(* per stretch of code between two awaits, for a set of invocations that   *)
(* the host may interleave freely.  The Kinde management API (directory    *)
(* lookup and meter sink) is the environment: every awaited call either    *)
(* resolves with a response drawn from a bounded set, or rejects.          *)
(***************************************************************************)
EXTENDS Integers, Sequences, FiniteSets, TLC

\* ---------------------------------------------------------------- bounds
NumInvocations == 2     \* invocations the host runs concurrently
MaxAgreements == 2      \* longest billing.agreements list the directory returns
MaxLen == 3             \* usernames over ShortAlphabet are enumerated up to this length
MaxLong == 22           \* longest repeated-character username

\* ------------------------------------------------------- JavaScript values
Undefined == "<undefined>"

\* `!v` for a value that is undefined or a string
IsFalsy_undefinedIsTruthy(v) == v = ""
IsFalsy(v) == v = Undefined \/ v = ""

\* ------------------------------------------------ trackOrgSeatUsage: data
planCode_other == "other"
planCode == "standard-organization-plan"
billingFeatureCode == "user"

OrgCodes == {Undefined, "", "org_1"}
UserIds == {"kp_1"}
PlanCodes == {"standard-organization-plan", "other"}
\* the directory gives the k-th agreement of an organization its own id
AgreementId(k) == "agreement_" \o ToString(k)

\* onPostAuthenticationEvent, restricted to the fields the handler reads
Events == [isNewUserRecordCreated : BOOLEAN, orgCode : OrgCodes, userId : UserIds]

AgreementLists ==
    {[k \in 1..Len(plans) |-> [plan_code |-> plans[k], agreement_id |-> AgreementId(k)]] :
        plans \in UNION {[1..n -> PlanCodes] : n \in 0..MaxAgreements}}

\* orgResponse.data: an organization with billing.agreements, or an
\* organization object that carries no billing member
NoResponse == [data |-> "none", agreements |-> <<>>]
NoBilling == [data |-> "nobilling", agreements |-> <<>>]
OrgResponses == {[data |-> "org", agreements |-> a] : a \in AgreementLists} \cup {NoBilling}

NoAgreement == [plan_code |-> Undefined, agreement_id |-> Undefined]

\* Array.prototype.find with the predicate agr.plan_code === code
find_last(agreements, code) ==
    LET hits == {k \in 1..Len(agreements) : agreements[k].plan_code = code}
    IN IF hits = {} THEN NoAgreement
       ELSE agreements[CHOOSE k \in hits : \A j \in hits : j <= k]
find_any(agreements, code) ==
    IF Len(agreements) = 0 THEN NoAgreement ELSE agreements[1]
RECURSIVE find(_, _)
find(agreements, code) ==
    IF Len(agreements) = 0 THEN NoAgreement
    ELSE IF Head(agreements).plan_code = code THEN Head(agreements)
    ELSE find(Tail(agreements), code)

NoParams == [customer_agreement_id |-> "", billing_feature_code |-> "",
             meter_value |-> "", meter_type_code |-> ""]

\* the request of kindeAPI.get
getRequest(orgCode) ==
    [op |-> "get", endpoint |-> <<"organization?code=", orgCode, "&expand=billing">>,
     params |-> NoParams, status |-> "pending"]

\* the request of kindeAPI.post
postRequest(agreement) ==
    [op |-> "post", endpoint |-> <<"billing/meter_usage">>,
     params |-> [customer_agreement_id |-> agreement.agreement_id,
                 billing_feature_code |-> billingFeatureCode,
                 meter_value |-> "1",
                 meter_type_code |-> "delta"],
     status |-> "pending"]

\* the meter sink is append-only: every request it is sent is one increment
meterPost_dedup(meter, params) ==
    IF \E k \in 1..Len(meter) : meter[k] = params THEN meter ELSE Append(meter, params)
meterPost(meter, params) == Append(meter, params)

NoOutcome == [kind |-> "none", reason |-> "", agreementId |-> "", userId |-> ""]
Skipped(reason) == [kind |-> "Skipped", reason |-> reason, agreementId |-> "", userId |-> ""]
Reported(agreementId, userId) ==
    [kind |-> "Reported", reason |-> "", agreementId |-> agreementId, userId |-> userId]
Failed(error) == [kind |-> "Failed", reason |-> error, agreementId |-> "", userId |-> ""]

\* the last call of a log, with its status settled
Settle(log, status) == [log EXCEPT ![Len(log)].status = status]

VARIABLES
    pc,           \* per invocation: the await the handler is suspended at
    event,        \* per invocation: the event it was triggered with
    orgResponse,  \* per invocation: what kindeAPI.get resolved with
    calls,        \* per invocation: the requests it sent, in order
    outcome,      \* per invocation: how it ended
    meterUsage,   \* the meter sink: every submission it was sent, in order
    wfPc,         \* username Workflow: position
    username,     \* username Workflow: event.context.auth.suppliedUsername
    invalidated   \* username Workflow: the invalidateFormField calls made

billingVars == <<pc, event, orgResponse, calls, outcome, meterUsage>>
usernameVars == <<wfPc, username, invalidated>>
vars == <<pc, event, orgResponse, calls, outcome, meterUsage, wfPc, username, invalidated>>

Invocations == DOMAIN pc

\* ------------------------------------------- trackOrgSeatUsage: the steps

\* lines 60-78: entry up to `await createKindeAPI(event)`
trackOrgSeatUsage_newUserFirst(i) ==
    /\ pc[i] = "start"
    /\ IF ~event[i].isNewUserRecordCreated
         THEN /\ pc' = [pc EXCEPT ![i] = "done"]
              /\ outcome' = [outcome EXCEPT ![i] = Skipped("NotNewUser")]
         ELSE IF IsFalsy(event[i].orgCode)
         THEN /\ pc' = [pc EXCEPT ![i] = "done"]
              /\ outcome' = [outcome EXCEPT ![i] = Skipped("NoOrgCode")]
         ELSE /\ pc' = [pc EXCEPT ![i] = "createKindeAPI"]
              /\ UNCHANGED outcome
    /\ UNCHANGED <<event, orgResponse, calls, meterUsage, usernameVars>>
trackOrgSeatUsage(i) ==
    /\ pc[i] = "start"
    /\ IF IsFalsy(event[i].orgCode)
         THEN /\ pc' = [pc EXCEPT ![i] = "done"]
              /\ outcome' = [outcome EXCEPT ![i] = Skipped("NoOrgCode")]
         ELSE IF event[i].isNewUserRecordCreated
         THEN /\ pc' = [pc EXCEPT ![i] = "createKindeAPI"]
              /\ UNCHANGED outcome
         ELSE /\ pc' = [pc EXCEPT ![i] = "done"]
              /\ outcome' = [outcome EXCEPT ![i] = Skipped("NotNewUser")]
    /\ UNCHANGED <<event, orgResponse, calls, meterUsage, usernameVars>>

\* lines 78-84: createKindeAPI resolves, kindeAPI.get is sent
createKindeAPIResolves_postFirst(i) ==
    /\ pc[i] = "createKindeAPI"
    /\ calls' = [calls EXCEPT ![i] =
                   <<postRequest([plan_code |-> planCode, agreement_id |-> AgreementId(1)]),
                     getRequest(event[i].orgCode)>>]
    /\ pc' = [pc EXCEPT ![i] = "get"]
    /\ UNCHANGED <<event, orgResponse, outcome, meterUsage, usernameVars>>
createKindeAPIResolves(i) ==
    /\ pc[i] = "createKindeAPI"
    /\ calls' = [calls EXCEPT ![i] = Append(@, getRequest(event[i].orgCode))]
    /\ pc' = [pc EXCEPT ![i] = "get"]
    /\ UNCHANGED <<event, orgResponse, outcome, meterUsage, usernameVars>>

\* line 78: createKindeAPI rejects, the rejection leaves the handler
createKindeAPIRejects(i) ==
    /\ pc[i] = "createKindeAPI"
    /\ pc' = [pc EXCEPT ![i] = "done"]
    /\ outcome' = [outcome EXCEPT ![i] = Failed("ApiClientError")]
    /\ UNCHANGED <<event, orgResponse, calls, meterUsage, usernameVars>>

\* lines 82-126: kindeAPI.get resolves with resp, the agreement is looked
\* up and, when there is one, kindeAPI.post is sent
getResolvesWith_noAwait(i, resp) ==
    /\ pc[i] = "get"
    /\ orgResponse' = [orgResponse EXCEPT ![i] = resp]
    /\ IF resp.data = "nobilling"
         THEN /\ calls' = [calls EXCEPT ![i] = Settle(@, "ok")]
              /\ pc' = [pc EXCEPT ![i] = "done"]
              /\ outcome' = [outcome EXCEPT ![i] = Failed("TypeError")]
              /\ UNCHANGED meterUsage
         ELSE LET agreement == find(resp.agreements, planCode)
              IN IF agreement = NoAgreement
                   THEN /\ calls' = [calls EXCEPT ![i] = Settle(@, "ok")]
                        /\ pc' = [pc EXCEPT ![i] = "done"]
                        /\ outcome' = [outcome EXCEPT ![i] = Skipped("PlanNotMatched")]
                        /\ UNCHANGED meterUsage
                   ELSE /\ calls' = [calls EXCEPT ![i] =
                                       Append(Settle(@, "ok"), postRequest(agreement))]
                        /\ meterUsage' = meterPost(meterUsage, postRequest(agreement).params)
                        /\ pc' = [pc EXCEPT ![i] = "done"]
                        /\ outcome' = [outcome EXCEPT ![i] =
                                         Reported(agreement.agreement_id, event[i].userId)]
    /\ UNCHANGED <<event, usernameVars>>
getResolvesWith(i, resp) ==
    /\ pc[i] = "get"
    /\ orgResponse' = [orgResponse EXCEPT ![i] = resp]
    /\ IF resp.data = "nobilling"
         \* organization.billing is undefined: line 93 throws
         THEN /\ calls' = [calls EXCEPT ![i] = Settle(@, "ok")]
              /\ pc' = [pc EXCEPT ![i] = "done"]
              /\ outcome' = [outcome EXCEPT ![i] = Failed("TypeError")]
              /\ UNCHANGED meterUsage
         ELSE LET agreement == find(resp.agreements, planCode)
              IN IF agreement = NoAgreement
                   THEN /\ calls' = [calls EXCEPT ![i] = Settle(@, "ok")]
                        /\ pc' = [pc EXCEPT ![i] = "done"]
                        /\ outcome' = [outcome EXCEPT ![i] = Skipped("PlanNotMatched")]
                        /\ UNCHANGED meterUsage
                   ELSE /\ calls' = [calls EXCEPT ![i] =
                                       Append(Settle(@, "ok"), postRequest(agreement))]
                        /\ meterUsage' = meterPost(meterUsage, postRequest(agreement).params)
                        /\ pc' = [pc EXCEPT ![i] = "post"]
                        /\ UNCHANGED outcome
    /\ UNCHANGED <<event, usernameVars>>

getResolves(i) == \E resp \in OrgResponses : getResolvesWith(i, resp)

\* line 82: kindeAPI.get rejects, the rejection leaves the handler
getRejects_caught(i) ==
    /\ pc[i] = "get"
    /\ calls' = [calls EXCEPT ![i] = Settle(@, "error")]
    /\ pc' = [pc EXCEPT ![i] = "done"]
    /\ outcome' = [outcome EXCEPT ![i] = Skipped("PlanNotMatched")]
    /\ UNCHANGED <<event, orgResponse, meterUsage, usernameVars>>
getRejects(i) ==
    /\ pc[i] = "get"
    /\ calls' = [calls EXCEPT ![i] = Settle(@, "error")]
    /\ pc' = [pc EXCEPT ![i] = "done"]
    /\ outcome' = [outcome EXCEPT ![i] = Failed("DirectoryError")]
    /\ UNCHANGED <<event, orgResponse, meterUsage, usernameVars>>

\* lines 118-133: kindeAPI.post resolves, the handler returns
postResolves(i) ==
    /\ pc[i] = "post"
    /\ calls' = [calls EXCEPT ![i] = Settle(@, "ok")]
    /\ pc' = [pc EXCEPT ![i] = "done"]
    /\ outcome' = [outcome EXCEPT ![i] =
                     Reported(calls[i][Len(calls[i])].params.customer_agreement_id,
                              event[i].userId)]
    /\ UNCHANGED <<event, orgResponse, meterUsage, usernameVars>>

\* line 118: kindeAPI.post rejects, the rejection leaves the handler
postRejects(i) ==
    /\ pc[i] = "post"
    /\ calls' = [calls EXCEPT ![i] = Settle(@, "error")]
    /\ pc' = [pc EXCEPT ![i] = "done"]
    /\ outcome' = [outcome EXCEPT ![i] = Failed("SubmissionError")]
    /\ UNCHANGED <<event, orgResponse, meterUsage, usernameVars>>

\* ------------------------------------------------ username Workflow: data
BANNED_USERNAMES == {<<"a","d","m","i","n">>, <<"r","o","o","t">>, <<"t","e","s","t">>}
MIN_LENGTH == 3
MAX_LENGTH == 20

UpperCase == <<"A","B","C","D","E","F","G","H","I","J","K","L","M",
               "N","O","P","Q","R","S","T","U","V","W","X","Y","Z">>
LowerCase == <<"a","b","c","d","e","f","g","h","i","j","k","l","m",
               "n","o","p","q","r","s","t","u","v","w","x","y","z">>
Digits == <<"0","1","2","3","4","5","6","7","8","9">>
Range(s) == {s[k] : k \in 1..Len(s)}

\* a string is the sequence of its characters
\* /^[A-Za-z0-9]+$/.test(s)
alnumRegex(s) ==
    /\ Len(s) >= 1
    /\ \A k \in 1..Len(s) : s[k] \in Range(UpperCase) \cup Range(LowerCase) \cup Range(Digits)

toLowerChar(c) ==
    IF \E k \in 1..Len(UpperCase) : UpperCase[k] = c
      THEN LowerCase[CHOOSE k \in 1..Len(UpperCase) : UpperCase[k] = c]
      ELSE c
toUpperChar(c) ==
    IF \E k \in 1..Len(LowerCase) : LowerCase[k] = c
      THEN UpperCase[CHOOSE k \in 1..Len(LowerCase) : LowerCase[k] = c]
      ELSE c

\* String.prototype.toLocaleLowerCase, on the characters the model uses
toLocaleLowerCase_identity(s) == s
toLocaleLowerCase(s) == [k \in 1..Len(s) |-> toLowerChar(s[k])]

\* suppliedUsername: undefined, null, a number, or a string
NotAString == {[type |-> "undefined", num |-> 0, chars |-> <<>>],
               [type |-> "object", num |-> 0, chars |-> <<>>],
               [type |-> "number", num |-> 0, chars |-> <<>>],
               [type |-> "number", num |-> 42, chars |-> <<>>]}
Str(s) == [type |-> "string", num |-> 0, chars |-> s]

ShortAlphabet == {"a", "Z", "7", "_"}
ShortStrings == UNION {[1..n -> ShortAlphabet] : n \in 0..MaxLen}
\* every spelling of a banned name in upper and lower case
CaseVariants(w) == {s \in [1..Len(w) -> Range(w) \cup {toUpperChar(c) : c \in Range(w)}] :
                      \A k \in 1..Len(w) : toLowerChar(s[k]) = w[k]}
Repeat(c, n) == [k \in 1..n |-> c]
LongStrings == {Repeat("b", n) : n \in 0..MaxLong}
               \cup {Append(Repeat("b", n), "-") : n \in 0..MaxLong}
NearBanned == {Append(w, "1") : w \in BANNED_USERNAMES}
              \cup {<<"x">> \o w : w \in BANNED_USERNAMES}
              \cup {<<" ">> \o w : w \in BANNED_USERNAMES}
Usernames == NotAString \cup
             {Str(s) : s \in ShortStrings \cup LongStrings \cup NearBanned
                               \cup UNION {CaseVariants(w) : w \in BANNED_USERNAMES}}

\* `!username` for the values above
IsFalsyValue(v) ==
    \/ v.type = "undefined"
    \/ v.type = "object"       \* null
    \/ v.type = "number" /\ v.num = 0
    \/ v.type = "string" /\ Len(v.chars) = 0

invalidateFormField(log, field, message) ==
    Append(log, [field |-> field, message |-> message])

\* ------------------------------------------------ username Workflow: step
\* the whole handler: it has no await
Workflow ==
    /\ wfPc = "start"
    /\ wfPc' = "done"
    /\ invalidated' =
         IF IsFalsyValue(username) \/ username.type # "string"
           THEN invalidated
         ELSE IF ~alnumRegex(username.chars)
           THEN invalidateFormField(invalidated, "p_username",
                                    "Username must contain only letters and numbers.")
         ELSE IF Len(username.chars) < MIN_LENGTH \/ Len(username.chars) > MAX_LENGTH
           THEN invalidateFormField(invalidated, "p_username",
                                    "Username must be between 3 and 20 characters.")
         ELSE IF toLocaleLowerCase(username.chars) \in BANNED_USERNAMES
           THEN invalidateFormField(invalidated, "p_username",
                                    "This username is not allowed.")
         ELSE invalidated
    /\ UNCHANGED <<username, billingVars>>

\* ---------------------------------------------------------- specifications
InitBilling ==
    /\ pc = [i \in 1..NumInvocations |-> "start"]
    /\ event \in [1..NumInvocations -> Events]
    /\ orgResponse = [i \in 1..NumInvocations |-> NoResponse]
    /\ calls = [i \in 1..NumInvocations |-> <<>>]
    /\ outcome = [i \in 1..NumInvocations |-> NoOutcome]
    /\ meterUsage = <<>>

\* the host runs trackOrgSeatUsage; the username Workflow is not triggered
Init ==
    /\ InitBilling
    /\ wfPc = "off"
    /\ username = Str(<<>>)
    /\ invalidated = <<>>

Next ==
    \E i \in Invocations :
        \/ trackOrgSeatUsage(i)
        \/ createKindeAPIResolves(i)
        \/ createKindeAPIRejects(i)
        \/ getResolves(i)
        \/ getRejects(i)
        \/ postResolves(i)
        \/ postRejects(i)

Spec == Init /\ [][Next]_vars

\* every awaited call eventually resolves or rejects, and the runtime
\* eventually runs a handler that is ready to continue
Fairness ==
    \A i \in 1..NumInvocations :
        /\ WF_vars(trackOrgSeatUsage(i))
        /\ WF_vars(createKindeAPIResolves(i) \/ createKindeAPIRejects(i))
        /\ WF_vars(getResolves(i) \/ getRejects(i))
        /\ WF_vars(postResolves(i) \/ postRejects(i))

FairSpec == Init /\ [][Next]_vars /\ Fairness

\* the host runs the username Workflow once, for a supplied username
InitUsername ==
    /\ pc = <<>>
    /\ event = <<>>
    /\ orgResponse = <<>>
    /\ calls = <<>>
    /\ outcome = <<>>
    /\ meterUsage = <<>>
    /\ wfPc = "start"
    /\ username \in Usernames
    /\ invalidated = <<>>

NextUsername == Workflow

UsernameSpec == InitUsername /\ [][NextUsername]_vars

\* ------------------------------------------------------------ properties
Gets(i) == {k \in 1..Len(calls[i]) : calls[i][k].op = "get"}
Posts(i) == {k \in 1..Len(calls[i]) : calls[i][k].op = "post"}
Matches(resp) == {k \in 1..Len(resp.agreements) :
                    resp.agreements[k].plan_code = "standard-organization-plan"}
HasMatch(resp) == resp.data = "org" /\ Matches(resp) # {}
FirstMatch(resp) == resp.agreements[CHOOSE k \in Matches(resp) : \A j \in Matches(resp) : k <= j]
Qualifies(i) ==
    /\ event[i].isNewUserRecordCreated
    /\ event[i].orgCode # Undefined
    /\ HasMatch(orgResponse[i])

\* C1: an invocation sends a meter submission (a post to billing/meter_usage)
\* if and only if its event has isNewUserRecordCreated, its orgCode is
\* present, and the organization it fetched has an agreement whose plan code
\* is "standard-organization-plan".
C1_SubmissionIff ==
    \A i \in Invocations :
        (\E k \in Posts(i) : calls[i][k].endpoint = <<"billing/meter_usage">>)
            <=> Qualifies(i)
C1_Witness ==
    \E i \in Invocations : Posts(i) # {} /\ Qualifies(i) /\ pc[i] = "done"

\* C2 (as stated): every finished invocation whose event has
\* isNewUserRecordCreated = false ended Skipped(NotNewUser) with no network
\* call, whether or not orgCode is present.
C2_Original ==
    \A i \in Invocations :
        (pc[i] = "done" /\ ~event[i].isNewUserRecordCreated)
            => (outcome[i] = Skipped("NotNewUser") /\ calls[i] = <<>>)

\* C2 (amended): an invocation whose event has isNewUserRecordCreated = false
\* never sends a network call and never waits for one; it ends
\* Skipped(NotNewUser) when orgCode is a non-empty string and
\* Skipped(NoOrgCode) when orgCode is absent or empty.
C2_Amended ==
    \A i \in Invocations :
        ~event[i].isNewUserRecordCreated =>
            /\ calls[i] = <<>>
            /\ orgResponse[i] = NoResponse
            /\ pc[i] \in {"start", "done"}
            /\ pc[i] = "done" =>
                 outcome[i] = IF event[i].orgCode \in {Undefined, ""}
                                THEN Skipped("NoOrgCode")
                                ELSE Skipped("NotNewUser")
C2_Witness ==
    /\ \E i \in Invocations :
          pc[i] = "done" /\ ~event[i].isNewUserRecordCreated /\ event[i].orgCode = Undefined
    /\ \E i \in Invocations :
          pc[i] = "done" /\ ~event[i].isNewUserRecordCreated /\ event[i].orgCode = "org_1"

\* C3: an invocation whose event has no orgCode never sends a network call
\* (no lookup, no submission) and ends Skipped(NoOrgCode), whatever
\* isNewUserRecordCreated is.
C3_NoOrgCode ==
    \A i \in Invocations :
        event[i].orgCode = Undefined =>
            /\ calls[i] = <<>>
            /\ orgResponse[i] = NoResponse
            /\ pc[i] \in {"start", "done"}
            /\ pc[i] = "done" => outcome[i] = Skipped("NoOrgCode")
C3_Witness ==
    \E i \in Invocations :
        pc[i] = "done" /\ event[i].orgCode = Undefined /\ event[i].isNewUserRecordCreated

\* C4: a new-user invocation with an orgCode whose fetched organization has
\* an agreement list without any agreement on the target plan (the list may
\* be empty) ends Skipped(PlanNotMatched) after exactly one lookup and no
\* submission.
C4_PlanNotMatched ==
    \A i \in Invocations :
        (/\ event[i].isNewUserRecordCreated
         /\ event[i].orgCode # Undefined
         /\ orgResponse[i].data = "org"
         /\ Matches(orgResponse[i]) = {})
            => /\ pc[i] = "done"
               /\ outcome[i] = Skipped("PlanNotMatched")
               /\ Len(calls[i]) = 1
               /\ calls[i][1].op = "get"
               /\ calls[i][1].status = "ok"
               /\ Posts(i) = {}
C4_Witness ==
    \E i \in Invocations :
        /\ outcome[i] = Skipped("PlanNotMatched")
        /\ orgResponse[i].data = "org"
        /\ Len(orgResponse[i].agreements) >= 1
        /\ Matches(orgResponse[i]) = {}

\* C5: an invocation that submits sends exactly one submission, with
\* billing_feature_code "user", meter_value "1", meter_type_code "delta" and
\* the agreement_id of the first agreement, in the order of the directory's
\* list, whose plan code is the target plan code.
C5_FirstMatchSubmitted ==
    \A i \in Invocations :
        Posts(i) # {} =>
            /\ Cardinality(Posts(i)) = 1
            /\ HasMatch(orgResponse[i])
            /\ \A k \in Posts(i) :
                 calls[i][k].params =
                    [customer_agreement_id |-> FirstMatch(orgResponse[i]).agreement_id,
                     billing_feature_code |-> "user",
                     meter_value |-> "1",
                     meter_type_code |-> "delta"]
C5_Witness ==
    \E i \in Invocations :
        /\ Posts(i) # {}
        /\ Cardinality(Matches(orgResponse[i])) >= 2
        /\ \E j, k \in Matches(orgResponse[i]) :
              orgResponse[i].agreements[j].agreement_id
                 # orgResponse[i].agreements[k].agreement_id

\* C6: an invocation sends at most one lookup and at most one submission,
\* never has two calls in flight, and sends the submission only as its
\* second call, after its lookup has resolved.
C6_Sequential ==
    \A i \in Invocations :
        /\ Cardinality(Gets(i)) <= 1
        /\ Cardinality(Posts(i)) <= 1
        /\ Cardinality({k \in 1..Len(calls[i]) : calls[i][k].status = "pending"}) <= 1
        /\ \A k \in Posts(i) :
             /\ k = 2
             /\ calls[i][1].op = "get"
             /\ calls[i][1].status = "ok"
             /\ orgResponse[i] # NoResponse
C6_Witness ==
    \E i \in Invocations :
        pc[i] = "post" /\ Posts(i) = {2} /\ calls[i][2].status = "pending"

\* C7: a rejected lookup ends the invocation Failed(DirectoryError) with one
\* lookup and no submission; a rejected submission ends it
\* Failed(SubmissionError) with one submission; an invocation with a
\* rejected call never ends Skipped or Reported.
C7_ErrorsPropagate ==
    \A i \in Invocations :
        /\ (\E k \in Gets(i) : calls[i][k].status = "error") =>
              /\ pc[i] = "done"
              /\ outcome[i] = Failed("DirectoryError")
              /\ Cardinality(Gets(i)) = 1
              /\ Posts(i) = {}
        /\ (\E k \in Posts(i) : calls[i][k].status = "error") =>
              /\ pc[i] = "done"
              /\ outcome[i] = Failed("SubmissionError")
              /\ Cardinality(Posts(i)) = 1
              /\ Cardinality(Gets(i)) = 1
C7_Witness ==
    /\ \E i \in Invocations : \E k \in Gets(i) : calls[i][k].status = "error"
    /\ \E i \in Invocations : \E k \in Posts(i) : calls[i][k].status = "error"

\* what an invocation owns
Own(i) == <<pc[i], event[i], orgResponse[i], calls[i], outcome[i]>>

\* C8: the sink has received exactly one submission per qualifying
\* invocation (new user, orgCode present, matching agreement fetched), each
\* identical submission as many times as invocations sent it, and a step of
\* one invocation changes nothing that another invocation owns.
C8_SinkCount ==
    /\ Len(meterUsage) = Cardinality({i \in Invocations : Qualifies(i)})
    /\ \A i \in Invocations : \A k \in Posts(i) :
          Cardinality({m \in 1..Len(meterUsage) : meterUsage[m] = calls[i][k].params})
             = Cardinality({j \in Invocations :
                              \E l \in Posts(j) : calls[j][l].params = calls[i][k].params})
C8_Frame ==
    \A i \in 1..NumInvocations :
        /\ event'[i] = event[i]
        /\ pc'[i] = pc[i] => Own(i)' = Own(i)
        /\ \A j \in 1..NumInvocations : (j # i /\ pc'[j] # pc[j]) => Own(i)' = Own(i)
C8_Independent == [](C8_SinkCount) /\ [][C8_Frame]_vars
C8_Witness ==
    \E i, j \in Invocations :
        /\ i # j
        /\ event[i] = event[j]
        /\ orgResponse[i] = orgResponse[j]
        /\ Qualifies(i)
        /\ Len(meterUsage) = 2
        /\ meterUsage[1] = meterUsage[2]

\* C9: under fair scheduling every invocation eventually ends; an ended
\* invocation is exactly one of Skipped, Reported or Failed and takes no
\* further step; Reported is reached only with a submission that was sent
\* and has resolved.
C9_Outcome ==
    \A i \in Invocations :
        /\ pc[i] = "done" <=> outcome[i].kind \in {"Skipped", "Reported", "Failed"}
        /\ pc[i] # "done" => outcome[i] = NoOutcome
        /\ outcome[i].kind = "Reported" =>
              \E k \in Posts(i) : calls[i][k].status = "ok"
C9_Final ==
    \A i \in 1..NumInvocations : pc[i] = "done" => Own(i)' = Own(i)
C9_Terminates ==
    /\ \A i \in 1..NumInvocations : <>(pc[i] = "done")
    /\ [](C9_Outcome)
    /\ [][C9_Final]_vars
C9_Witness ==
    \E i \in Invocations :
        /\ pc[i] = "done"
        /\ outcome[i].kind = "Reported"
        /\ \E k \in Posts(i) : calls[i][k].status = "ok"

\* C10: the username Workflow calls invalidateFormField at most once, on
\* "p_username"; exactly once when the username is a non-empty string that
\* has a non-alphanumeric character, or is shorter than 3 or longer than 20,
\* or is "admin", "root" or "test" in any mix of cases, the first failing
\* check deciding the message; never when the username is absent, empty,
\* not a string, or passes the three checks.
AlnumChars == {"A","B","C","D","E","F","G","H","I","J","K","L","M","N","O","P","Q","R",
               "S","T","U","V","W","X","Y","Z","a","b","c","d","e","f","g","h","i","j",
               "k","l","m","n","o","p","q","r","s","t","u","v","w","x","y","z",
               "0","1","2","3","4","5","6","7","8","9"}
NotAlnum(s) == \E k \in 1..Len(s) : s[k] \notin AlnumChars
BadLength(s) == Len(s) < 3 \/ Len(s) > 20
IsBanned(s) ==
    \E w \in {<<"a","d","m","i","n">>, <<"r","o","o","t">>, <<"t","e","s","t">>} :
        /\ Len(s) = Len(w)
        /\ \A k \in 1..Len(w) : s[k] = w[k] \/ s[k] = toUpperChar(w[k])
ExpectedMessage(s) ==
    IF NotAlnum(s) THEN "Username must contain only letters and numbers."
    ELSE IF BadLength(s) THEN "Username must be between 3 and 20 characters."
    ELSE "This username is not allowed."
C10_UsernameValidation ==
    /\ wfPc = "start" => invalidated = <<>>
    /\ wfPc = "done" =>
         /\ Len(invalidated) <= 1
         /\ Len(invalidated) = 1 <=>
              /\ username.type = "string"
              /\ Len(username.chars) >= 1
              /\ NotAlnum(username.chars) \/ BadLength(username.chars) \/ IsBanned(username.chars)
         /\ Len(invalidated) = 1 =>
              invalidated[1] = [field |-> "p_username",
                                message |-> ExpectedMessage(username.chars)]
C10_Witness ==
    /\ wfPc = "done"
    /\ username = Str(<<"A","d","M","i","n">>)
    /\ Len(invalidated) = 1
====
